---- MODULE Spec2Model ----
(***************************************************************************)
(* A model of up-rust's in-memory RPC server                               *)
(* (src/communication/in_memory_rpc_server.rs) and of UStatus              *)
(* (src/ustatus.rs).                                                       *)
(*                                                                         *)
(* Three parts share this module:                                          *)
(*   - the listener registry, InMemoryRpcServer, whose register_endpoint   *)
(*     and unregister_endpoint are called concurrently by several callers  *)
(*     and suspend at the registry lock and at the transport call;         *)
(*   - the request dispatcher, RequestListener, whose on_receive runs once *)
(*     per inbound message and suspends at the handler/timeout race and at *)
(*     the transport's send;                                               *)
(*   - UStatus, whose factory functions and methods a caller applies.      *)
(* Option<T> values are modelled as sets with at most one element:         *)
(* None == {} and Some(x) == {x}.                                          *)
(***************************************************************************)
EXTENDS Integers, Sequences, FiniteSets, TLC

VARIABLES
    \* ---- InMemoryRpcServer (the registry) ----
    request_listeners,   \* HashMap<u16, Arc<dyn UListener>>: a function on the keys present
    lock,                \* holder of the tokio Mutex around request_listeners: {} or {p}
    reg_pc,              \* per caller: "idle" | "validate" | "lock" | "transport"
    reg_call,            \* per caller: the arguments of the call it is in (NoCall when in none)
    reg_result,          \* per caller: the operation it called last and the value it returned
    transport_calls,     \* per caller: (un)register_listener calls made by its current / last call
    transport_listeners, \* the transport's listeners of this server: sink resource id -> listener
    \* ---- RequestListener (the dispatcher) ----
    task_pc,             \* per dispatch: "idle" | "awaiting" | "sending" | "done"
    task_msg,            \* per dispatch: the inbound message, Option<UMessage>
    elapsed,             \* per dispatch: the time since on_receive was called, in the unit of ttl
    invocations,         \* per dispatch: the invoke_method calls made on the request handler
    outcome,             \* per dispatch: the result of the handler/timeout race, an Option
    sent,                \* per dispatch: the messages passed to transport.send, with the time
    send_result,         \* per dispatch: what transport.send returned, an Option
    transport_log,       \* the calls between the transport and the dispatches, in their order
    \* ---- UStatus ----
    ustatus,             \* the status a caller has created, with how it was created: an Option
    ustatus_calls        \* what the methods called on that status have returned

reg_vars == <<request_listeners, lock, reg_pc, reg_call, reg_result, transport_calls,
              transport_listeners>>
disp_vars == <<task_pc, task_msg, elapsed, invocations, outcome, sent, send_result,
               transport_log>>
status_vars == <<ustatus, ustatus_calls>>
vars == <<request_listeners, lock, reg_pc, reg_call, reg_result,
          transport_calls, transport_listeners,
          task_pc, task_msg, elapsed, invocations, outcome, sent, send_result,
          transport_log, ustatus, ustatus_calls>>

None == {}
Some(x) == {x}
Unwrap(o) == CHOOSE x \in o : TRUE

(***************************************************************************)
(* Addresses                                                               *)
(***************************************************************************)
\* the largest resource id of an RPC method
MethodMax == 32767

\* ue_id is a 32-bit number, kept as <<upper 16 bits, lower 16 bits>>
UUri(authority, ue_id, version, resource_id) ==
    [authority_name |-> authority, ue_id |-> ue_id,
     ue_version_major |-> version, resource_id |-> resource_id]

\* the wildcard address matching any origin
UUriAny == UUri("*", <<65535, 65535>>, 255, 65535)

is_rpc_method(uri) == uri.resource_id >= 1 /\ uri.resource_id <= MethodMax

is_rpc_response(uri) == uri.resource_id = 0

\* LocalUriProvider::get_resource_uri of the server's own entity
get_resource_uri(resource_id) == UUri("", <<0, 5>>, 2, resource_id)

(***************************************************************************)
(* RegistrationError                                                       *)
(***************************************************************************)
Ok == [kind |-> "Ok", detail |-> ""]
InvalidFilter(reason) == [kind |-> "InvalidFilter", detail |-> reason]
MaxListenersExceeded == [kind |-> "MaxListenersExceeded", detail |-> ""]
NoSuchListener == [kind |-> "NoSuchListener", detail |-> ""]
\* RegistrationError::from(UStatus): the failure delegated from the transport
RegistrationErrorFrom(status) == [kind |-> "Transport", detail |-> status]

(***************************************************************************)
(* Inputs of the registry                                                  *)
(***************************************************************************)
Callers == {"c1", "c2"}
Handlers == {"H1", "H2"}
\* u16 resource ids: both ends of the method range and the values next to them
ResourceIds == {0, 1, MethodMax, MethodMax + 1}
OriginFilters == {None,
                  Some(UUri("authority", <<0, 48922>>, 1, 0)),
                  Some(UUri("*", <<0, 65535>>, 255, 1))}
\* the status codes a failing transport answers with
TransportErrors == {"UNAVAILABLE"}

\* a range check that forgets the lower end of the method range
validate_sink_filter_no_lower(filter) ==
    IF filter.resource_id > MethodMax
    THEN InvalidFilter("RPC endpoint's resource ID must be in range [0x0001, 0x7FFF]")
    ELSE Ok

validate_sink_filter(filter) ==
    IF ~is_rpc_method(filter)
    THEN InvalidFilter("RPC endpoint's resource ID must be in range [0x0001, 0x7FFF]")
    ELSE Ok

validate_origin_filter(filter) ==
    IF filter # None /\ ~is_rpc_response(Unwrap(filter))
    THEN InvalidFilter("origin filter's resource ID must be 0")
    ELSE Ok

contains_endpoint(resource_id) == resource_id \in DOMAIN request_listeners

\* HashMap insert / remove
MapInsert(m, k, v) == [x \in (DOMAIN m) \cup {k} |-> IF x = k THEN v ELSE m[x]]
MapRemove(m, k) == [x \in (DOMAIN m) \ {k} |-> m[x]]

\* Arc::new(RequestListener { request_handler, transport })
RequestListener(request_handler) == [request_handler |-> request_handler]

\* a transport call that drops the caller's origin filter
TransportCall_any_origin(fn, origin_filter, sink_filter, listener) ==
    [fn |-> fn, source_filter |-> UUriAny,
     sink_filter |-> Some(sink_filter), listener |-> listener]

\* origin_filter.unwrap_or(&UUri::any()), Some(&sink_filter), listener
TransportCall(fn, origin_filter, sink_filter, listener) ==
    [fn |-> fn,
     source_filter |-> IF origin_filter = None THEN UUriAny ELSE Unwrap(origin_filter),
     sink_filter |-> Some(sink_filter),
     listener |-> listener]

(***************************************************************************)
(* InMemoryRpcServer: register_endpoint and unregister_endpoint            *)
(*                                                                         *)
(* A call runs in the steps its suspension points cut it into:             *)
(*   *_call               the call is made;                                *)
(*   endpoint_validate    validates the filters (no lock held);            *)
(*   *_locked             request_listeners.lock().await returned: looks   *)
(*                        the resource id up and calls the transport;      *)
(*   *_transport_returns  the transport call returned: updates the map,    *)
(*                        the guard is dropped and the call returns.       *)
(***************************************************************************)
TransportOk == "OK"
TransportStatuses == {TransportOk} \cup TransportErrors

Call(op, origin_filter, resource_id, request_handler) ==
    [op |-> op, origin_filter |-> origin_filter,
     resource_id |-> resource_id, request_handler |-> request_handler]

NoCall == Call("none", None, 0, "H1")

\* a prologue that validates the sink filter first
ValidateFilters_sink_first(origin_filter, resource_id) ==
    IF validate_sink_filter(get_resource_uri(resource_id)) # Ok
    THEN validate_sink_filter(get_resource_uri(resource_id))
    ELSE validate_origin_filter(origin_filter)

\* Self::validate_origin_filter(origin_filter)?; get_resource_uri; Self::validate_sink_filter(&sink_filter)?
ValidateFilters(origin_filter, resource_id) ==
    IF validate_origin_filter(origin_filter) # Ok
    THEN validate_origin_filter(origin_filter)
    ELSE validate_sink_filter(get_resource_uri(resource_id))

\* a registry without mutual exclusion: the lock is granted to everybody
LockFree_always(holder) == TRUE

\* the tokio Mutex is granted only when nobody holds it
LockFree(holder) == holder = {}

\* a registry that replaces an existing entry instead of rejecting the duplicate
EntryVacant_replace(m, resource_id) == TRUE

\* Entry::Vacant(e) = listener_map.entry(resource_id)
EntryVacant(m, resource_id) == resource_id \notin DOMAIN m

\* inserting before the transport's answer is known
AfterRegister_eager(m, resource_id, listener, status) == MapInsert(m, resource_id, listener)

\* .map(|_| { e.insert(listener); }) on the result of register_listener
AfterRegister(m, resource_id, listener, status) ==
    IF status = TransportOk THEN MapInsert(m, resource_id, listener) ELSE m

\* an entry that stays when the transport has unregistered the listener
AfterUnregister_never(m, resource_id, status) == m

\* removing before the transport's answer is known
AfterUnregister_eager(m, resource_id, status) == MapRemove(m, resource_id)

\* .map(|_| { entry.remove(); }) on the result of unregister_listener
AfterUnregister(m, resource_id, status) ==
    IF status = TransportOk THEN MapRemove(m, resource_id) ELSE m

\* .map(..).map_err(RegistrationError::from)
TransportResult(status) ==
    IF status = TransportOk THEN Ok ELSE RegistrationErrorFrom(status)

\* what the caller observes: the operation it called and the value returned
Returned(op, value) == [op |-> op, value |-> value]
Running(op) == [op |-> op, value |-> [kind |-> "Pending", detail |-> ""]]

\* the call is made: the arguments are on the caller's frame
EndpointCall(c, op, origin_filter, resource_id, request_handler) ==
    /\ reg_pc[c] = "idle"
    /\ reg_pc' = [reg_pc EXCEPT ![c] = "validate"]
    /\ reg_call' = [reg_call EXCEPT ![c] = Call(op, origin_filter, resource_id, request_handler)]
    /\ reg_result' = [reg_result EXCEPT ![c] = Running(op)]
    /\ transport_calls' = [transport_calls EXCEPT ![c] = <<>>]
    /\ UNCHANGED <<request_listeners, lock, transport_listeners>>
    /\ UNCHANGED <<disp_vars, status_vars>>

\* the two `?` of the prologue: return the error, or go on to lock().await
endpoint_validate(c) ==
    /\ reg_pc[c] = "validate"
    /\ IF ValidateFilters(reg_call[c].origin_filter, reg_call[c].resource_id) # Ok
       THEN /\ reg_result' = [reg_result EXCEPT ![c] =
                  Returned(reg_call[c].op,
                           ValidateFilters(reg_call[c].origin_filter, reg_call[c].resource_id))]
            /\ reg_pc' = [reg_pc EXCEPT ![c] = "idle"]
            /\ reg_call' = [reg_call EXCEPT ![c] = NoCall]
       ELSE /\ reg_pc' = [reg_pc EXCEPT ![c] = "lock"]
            /\ UNCHANGED <<reg_result, reg_call>>
    /\ UNCHANGED <<request_listeners, lock, transport_calls, transport_listeners>>
    /\ UNCHANGED <<disp_vars, status_vars>>

register_endpoint_call(c) ==
    \E origin_filter \in OriginFilters, resource_id \in ResourceIds, request_handler \in Handlers :
        EndpointCall(c, "register", origin_filter, resource_id, request_handler)

unregister_endpoint_call(c) ==
    \E origin_filter \in OriginFilters, resource_id \in ResourceIds, request_handler \in Handlers :
        EndpointCall(c, "unregister", origin_filter, resource_id, request_handler)

\* the listener the locked step hands to the transport, None when it returns at once
RegisterListener(m, call) ==
    IF EntryVacant(m, call.resource_id)
    THEN Some(RequestListener(call.request_handler))
    ELSE None

\* unregistering without looking the entry up: the transport is asked in any case
UnregisterListener_unchecked(m, call) ==
    IF call.resource_id \in DOMAIN m
    THEN Some(m[call.resource_id])
    ELSE Some(RequestListener(call.request_handler))

\* unregistering a listener made from the handler of the call
UnregisterListener_from_handler(m, call) ==
    IF call.resource_id \in DOMAIN m
    THEN Some(RequestListener(call.request_handler))
    ELSE None

\* Entry::Occupied(entry) = listener_map.entry(resource_id); entry.get().to_owned()
UnregisterListener(m, call) ==
    IF call.resource_id \in DOMAIN m
    THEN Some(m[call.resource_id])
    ELSE None

Locked(c, fn, listener, failure) ==
    /\ IF listener = None
       THEN /\ reg_result' = [reg_result EXCEPT ![c] = Returned(reg_call[c].op, failure)]
            /\ reg_pc' = [reg_pc EXCEPT ![c] = "idle"]
            /\ reg_call' = [reg_call EXCEPT ![c] = NoCall]
            /\ UNCHANGED <<lock, transport_calls>>
       ELSE /\ lock' = {c}
            /\ reg_pc' = [reg_pc EXCEPT ![c] = "transport"]
            /\ transport_calls' =
                   [transport_calls EXCEPT ![c] =
                       Append(@, TransportCall(fn, reg_call[c].origin_filter,
                                               get_resource_uri(reg_call[c].resource_id),
                                               Unwrap(listener)))]
            /\ UNCHANGED <<reg_result, reg_call>>
    /\ UNCHANGED <<request_listeners, transport_listeners>>
    /\ UNCHANGED <<disp_vars, status_vars>>

register_endpoint_locked(c) ==
    /\ reg_pc[c] = "lock"
    /\ reg_call[c].op = "register"
    /\ LockFree(lock)
    /\ Locked(c, "register_listener", RegisterListener(request_listeners, reg_call[c]),
              MaxListenersExceeded)

unregister_endpoint_locked(c) ==
    /\ reg_pc[c] = "lock"
    /\ reg_call[c].op = "unregister"
    /\ LockFree(lock)
    /\ Locked(c, "unregister_listener", UnregisterListener(request_listeners, reg_call[c]),
              NoSuchListener)

LastTransportCall(c) == transport_calls[c][Len(transport_calls[c])]

\* UTransport::register_listener / unregister_listener: a call the transport answers
\* with OK has added, or removed, the listener of the sink filter; any other has done
\* nothing
TransportAfter(listeners, call, status) ==
    IF status # TransportOk
    THEN listeners
    ELSE IF call.fn = "register_listener"
         THEN MapInsert(listeners, Unwrap(call.sink_filter).resource_id, call.listener)
         ELSE MapRemove(listeners, Unwrap(call.sink_filter).resource_id)

register_endpoint_transport_returns(c) ==
    /\ reg_pc[c] = "transport"
    /\ reg_call[c].op = "register"
    /\ \E status \in TransportStatuses :
          /\ request_listeners' = AfterRegister(request_listeners, reg_call[c].resource_id,
                                                LastTransportCall(c).listener, status)
          /\ reg_result' = [reg_result EXCEPT ![c] =
                                Returned(reg_call[c].op, TransportResult(status))]
          /\ transport_listeners' = TransportAfter(transport_listeners, LastTransportCall(c),
                                                   status)
    /\ lock' = lock \ {c}
    /\ reg_pc' = [reg_pc EXCEPT ![c] = "idle"]
    /\ reg_call' = [reg_call EXCEPT ![c] = NoCall]
    /\ UNCHANGED transport_calls
    /\ UNCHANGED <<disp_vars, status_vars>>

\* an unregister_endpoint that returns a transport failure with the lock still held
unregister_endpoint_transport_returns_locked(c) ==
    /\ reg_pc[c] = "transport"
    /\ reg_call[c].op = "unregister"
    /\ \E status \in TransportStatuses :
          /\ request_listeners' = AfterUnregister(request_listeners, reg_call[c].resource_id, status)
          /\ reg_result' = [reg_result EXCEPT ![c] =
                                Returned(reg_call[c].op, TransportResult(status))]
          /\ transport_listeners' = TransportAfter(transport_listeners, LastTransportCall(c),
                                                   status)
          /\ lock' = IF status = TransportOk THEN lock \ {c} ELSE lock
    /\ reg_pc' = [reg_pc EXCEPT ![c] = "idle"]
    /\ reg_call' = [reg_call EXCEPT ![c] = NoCall]
    /\ UNCHANGED transport_calls
    /\ UNCHANGED <<disp_vars, status_vars>>

unregister_endpoint_transport_returns(c) ==
    /\ reg_pc[c] = "transport"
    /\ reg_call[c].op = "unregister"
    /\ \E status \in TransportStatuses :
          /\ request_listeners' = AfterUnregister(request_listeners, reg_call[c].resource_id, status)
          /\ reg_result' = [reg_result EXCEPT ![c] =
                                Returned(reg_call[c].op, TransportResult(status))]
          /\ transport_listeners' = TransportAfter(transport_listeners, LastTransportCall(c),
                                                   status)
    /\ lock' = lock \ {c}
    /\ reg_pc' = [reg_pc EXCEPT ![c] = "idle"]
    /\ reg_call' = [reg_call EXCEPT ![c] = NoCall]
    /\ UNCHANGED transport_calls
    /\ UNCHANGED <<disp_vars, status_vars>>

\* InMemoryRpcServer::new
RegistryInit ==
    /\ request_listeners = << >>
    /\ lock = {}
    /\ reg_pc = [c \in Callers |-> "idle"]
    /\ reg_call = [c \in Callers |-> NoCall]
    /\ reg_result = [c \in Callers |-> Running("none")]
    /\ transport_calls = [c \in Callers |-> <<>>]
    /\ transport_listeners = << >>

\* no status has been created
NoStatus ==
    /\ ustatus = {}
    /\ ustatus_calls = << >>

\* no message is being dispatched
NoDispatch ==
    /\ task_pc = << >>
    /\ task_msg = << >>
    /\ elapsed = << >>
    /\ invocations = << >>
    /\ outcome = << >>
    /\ sent = << >>
    /\ send_result = << >>
    /\ transport_log = <<>>

RegistryNext ==
    \/ \E c \in Callers : register_endpoint_call(c)
    \/ \E c \in Callers : unregister_endpoint_call(c)
    \/ \E c \in Callers : endpoint_validate(c)
    \/ \E c \in Callers : register_endpoint_locked(c)
    \/ \E c \in Callers : register_endpoint_transport_returns(c)
    \/ \E c \in Callers : unregister_endpoint_locked(c)
    \/ \E c \in Callers : unregister_endpoint_transport_returns(c)

RegistryInitAll == RegistryInit /\ NoDispatch /\ NoStatus

RegistrySpec == RegistryInitAll /\ [][RegistryNext]_vars

(***************************************************************************)
(* The registry under fair scheduling: calls with valid filters contend    *)
(* for the lock                                                            *)
(***************************************************************************)
\* two resource ids that pass validate_sink_filter
ContendedResourceIds == {1, MethodMax}

contended_register_endpoint_call(c) ==
    \E resource_id \in ContendedResourceIds :
        EndpointCall(c, "register", None, resource_id, "H1")

contended_unregister_endpoint_call(c) ==
    \E resource_id \in ContendedResourceIds :
        EndpointCall(c, "unregister", None, resource_id, "H1")

ContendedNext ==
    \/ \E c \in Callers : contended_register_endpoint_call(c)
    \/ \E c \in Callers : contended_unregister_endpoint_call(c)
    \/ \E c \in Callers : endpoint_validate(c)
    \/ \E c \in Callers : register_endpoint_locked(c)
    \/ \E c \in Callers : register_endpoint_transport_returns(c)
    \/ \E c \in Callers : unregister_endpoint_locked(c)
    \/ \E c \in Callers : unregister_endpoint_transport_returns(c)

ContendedSpec == RegistryInitAll /\ [][ContendedNext]_vars

\* a call that has been made runs on, the tokio Mutex serves every waiter (it is
\* fair), and the transport's calls return
RegistryFairness ==
    \A c \in Callers :
        /\ WF_vars(endpoint_validate(c))
        /\ SF_vars(register_endpoint_locked(c))
        /\ SF_vars(unregister_endpoint_locked(c))
        /\ WF_vars(register_endpoint_transport_returns(c))
        /\ WF_vars(unregister_endpoint_transport_returns(c))

FairRegistrySpec == ContendedSpec /\ RegistryFairness

(***************************************************************************)
(* Properties of the registry                                              *)
(***************************************************************************)
\* the steps of a call, seen from outside
ReachesLock(c, op) ==
    reg_pc[c] = "lock" /\ reg_call[c].op = op /\ reg_pc'[c] # "lock"
TransportReturns(c, op) ==
    reg_pc[c] = "transport" /\ reg_call[c].op = op /\ reg_pc'[c] # "transport"
SinkOf(c) == Unwrap(transport_calls[c][1].sink_filter).resource_id

\* C1: a register_endpoint for a resource id that already has an entry returns
\* MaxListenersExceeded, makes no transport call and leaves the registry, the
\* stored listener included, as it was.
C1_DuplicateRejected ==
    [][\A c \in Callers :
          (ReachesLock(c, "register") /\ contains_endpoint(reg_call[c].resource_id))
          => /\ reg_pc'[c] = "idle"
             /\ reg_result'[c] = Returned("register", MaxListenersExceeded)
             /\ transport_calls'[c] = <<>>
             /\ request_listeners' = request_listeners]_vars

\* a duplicate registration has been rejected while the entry of another handler stays
C1_Witness ==
    \E c \in Callers, r \in DOMAIN request_listeners :
        /\ reg_pc[c] = "idle"
        /\ reg_result[c] = Returned("register", MaxListenersExceeded)
        /\ request_listeners[r] = RequestListener("H1")

\* C2: an unregister_endpoint for a valid resource id without an entry returns
\* NoSuchListener, makes no transport call and leaves the registry unchanged.
C2_UnknownEndpoint ==
    [][\A c \in Callers :
          (ReachesLock(c, "unregister") /\ ~contains_endpoint(reg_call[c].resource_id))
          => /\ reg_pc'[c] = "idle"
             /\ reg_result'[c] = Returned("unregister", NoSuchListener)
             /\ transport_calls'[c] = <<>>
             /\ request_listeners' = request_listeners]_vars

\* an unregistration has been rejected with NoSuchListener, another id being registered
C2_Witness ==
    \E c \in Callers :
        /\ reg_pc[c] = "idle"
        /\ reg_result[c] = Returned("unregister", NoSuchListener)
        /\ transport_calls[c] = <<>>
        /\ DOMAIN request_listeners # {}

InvalidArguments(call) ==
    \/ call.resource_id = 0
    \/ call.resource_id > MethodMax
    \/ (call.origin_filter # None /\ Unwrap(call.origin_filter).resource_id # 0)

\* C3: in every registry state a register_endpoint or unregister_endpoint with
\* resource id 0, a resource id above 0x7FFF or an origin filter whose resource id
\* is not 0 returns InvalidFilter, makes no transport call and leaves the registry
\* unchanged.
C3_InvalidFilter ==
    [][\A c \in Callers :
          (reg_pc[c] = "validate" /\ reg_pc'[c] # "validate" /\ InvalidArguments(reg_call[c]))
          => /\ reg_pc'[c] = "idle"
             /\ reg_result'[c].op = reg_call[c].op
             /\ reg_result'[c].value.kind = "InvalidFilter"
             /\ transport_calls'[c] = <<>>
             /\ request_listeners' = request_listeners]_vars

\* both operations have been rejected with InvalidFilter while an endpoint is registered
C3_Witness ==
    /\ DOMAIN request_listeners # {}
    /\ \E c, d \in Callers :
          /\ reg_pc[c] = "idle" /\ reg_pc[d] = "idle"
          /\ reg_result[c].op = "register" /\ reg_result[c].value.kind = "InvalidFilter"
          /\ reg_result[d].op = "unregister" /\ reg_result[d].value.kind = "InvalidFilter"
          /\ transport_calls[c] = <<>> /\ transport_calls[d] = <<>>

\* C4: register_endpoint inserts the entry only when register_listener succeeds; when
\* the transport fails the call returns the error made from the transport's status
\* and the registry is as it was when the call took the lock, the id still vacant.
C4_RegisterOnlyOnSuccess ==
    [][\A c \in Callers :
          /\ (reg_pc[c] = "transport" /\ reg_pc'[c] = "transport")
             => request_listeners' = request_listeners
          /\ TransportReturns(c, "register")
             => \/ /\ reg_result'[c] = Returned("register", Ok)
                   /\ (reg_call[c].resource_id \in DOMAIN request_listeners')
                \/ /\ \E status \in TransportErrors :
                         reg_result'[c] = Returned("register", RegistrationErrorFrom(status))
                   /\ request_listeners' = request_listeners
                   /\ ~(reg_call[c].resource_id \in DOMAIN request_listeners')]_vars

\* a registration has failed in the transport and its id is vacant
C4_Witness ==
    \E c \in Callers :
        /\ reg_pc[c] = "idle"
        /\ reg_result[c].op = "register" /\ reg_result[c].value.kind = "Transport"
        /\ Len(transport_calls[c]) = 1
        /\ ~contains_endpoint(SinkOf(c))

\* C5: unregister_endpoint calls unregister_listener with the listener stored for the
\* id and removes the entry only when that call succeeds; when the transport fails
\* the error is returned and the entry is retained.
C5_UnregisterOnlyOnSuccess ==
    [][\A c \in Callers :
          /\ (ReachesLock(c, "unregister") /\ reg_pc'[c] = "transport")
             => /\ contains_endpoint(reg_call[c].resource_id)
                /\ transport_calls'[c][1].fn = "unregister_listener"
                /\ transport_calls'[c][1].listener = request_listeners[reg_call[c].resource_id]
          /\ TransportReturns(c, "unregister")
             => \/ /\ reg_result'[c] = Returned("unregister", Ok)
                   /\ ~(reg_call[c].resource_id \in DOMAIN request_listeners')
                \/ /\ \E status \in TransportErrors :
                         reg_result'[c] = Returned("unregister", RegistrationErrorFrom(status))
                   /\ request_listeners' = request_listeners
                   /\ (reg_call[c].resource_id \in DOMAIN request_listeners')]_vars

\* an unregistration has failed in the transport and its entry is still there
C5_Witness ==
    \E c \in Callers :
        /\ reg_pc[c] = "idle"
        /\ reg_result[c].op = "unregister" /\ reg_result[c].value.kind = "Transport"
        /\ Len(transport_calls[c]) = 1
        /\ contains_endpoint(SinkOf(c))
        /\ request_listeners[SinkOf(c)] = transport_calls[c][1].listener

InFlight(c, op, resource_id) ==
    reg_pc[c] # "idle" /\ reg_call[c].op = op /\ reg_call[c].resource_id = resource_id

\* C6: of the register_endpoint calls in flight for one resource id at most one is past
\* the vacancy check at any time, and one returns Ok only from a state in which the id
\* is vacant and every other register call for it still has the check before it: the
\* others then find the entry and return MaxListenersExceeded.
C6_ConcurrentRegistration ==
    [][/\ Cardinality({c \in Callers : reg_pc[c] = "transport"}) <= 1
       /\ \A c \in Callers :
             (TransportReturns(c, "register") /\ reg_result'[c].value = Ok)
             => /\ ~contains_endpoint(reg_call[c].resource_id)
                /\ \A d \in Callers \ {c} :
                      InFlight(d, "register", reg_call[c].resource_id)
                      => reg_pc[d] \in {"validate", "lock"}]_vars

\* one registration succeeded while another one for the same id waits for the lock
C6_Witness ==
    \E c, d \in Callers :
        /\ c # d
        /\ reg_pc[c] = "idle"
        /\ reg_result[c] = Returned("register", Ok)
        /\ reg_pc[d] = "lock"
        /\ InFlight(d, "register", SinkOf(c))
        /\ contains_endpoint(SinkOf(c))

ExpectedTransportCall(fn, call, listener) ==
    [fn |-> fn,
     source_filter |-> IF call.origin_filter = None THEN UUriAny ELSE Unwrap(call.origin_filter),
     sink_filter |-> Some(get_resource_uri(call.resource_id)),
     listener |-> listener]

\* C7: with a transport that accepts both calls a register_endpoint adds exactly the
\* entry of its resource id and an unregister_endpoint takes exactly that entry away
\* again, so that the pair leaves the registry as it found it; both hand the transport
\* the origin filter (the wildcard address when there is none) and the sink filter of
\* the id; and a register_endpoint for a vacant id is always passed to the transport.
C7_RoundTrip ==
    [][\A c \in Callers :
          /\ (TransportReturns(c, "register") /\ reg_result'[c].value = Ok)
             => /\ ~contains_endpoint(reg_call[c].resource_id)
                /\ (reg_call[c].resource_id \in DOMAIN request_listeners')
                /\ request_listeners'[reg_call[c].resource_id]
                       = RequestListener(reg_call[c].request_handler)
                /\ request_listeners = MapRemove(request_listeners', reg_call[c].resource_id)
          /\ (TransportReturns(c, "unregister") /\ reg_result'[c].value = Ok)
             => /\ contains_endpoint(reg_call[c].resource_id)
                /\ ~(reg_call[c].resource_id \in DOMAIN request_listeners')
                /\ request_listeners' = MapRemove(request_listeners, reg_call[c].resource_id)
          /\ (ReachesLock(c, "register") /\ ~contains_endpoint(reg_call[c].resource_id))
             => /\ reg_pc'[c] = "transport"
                /\ transport_calls'[c] =
                       <<ExpectedTransportCall("register_listener", reg_call[c],
                                               RequestListener(reg_call[c].request_handler))>>
          /\ (ReachesLock(c, "unregister") /\ contains_endpoint(reg_call[c].resource_id))
             => /\ reg_pc'[c] = "transport"
                /\ transport_calls'[c] =
                       <<ExpectedTransportCall("unregister_listener", reg_call[c],
                                               request_listeners[reg_call[c].resource_id])>>]_vars

\* an id was registered, unregistered with its origin filter and registered again
C7_Witness ==
    \E c, d \in Callers :
        /\ c # d
        /\ reg_pc[c] = "idle" /\ reg_pc[d] = "idle"
        /\ reg_result[c] = Returned("unregister", Ok)
        /\ reg_result[d] = Returned("register", Ok)
        /\ transport_calls[c][1].source_filter # UUriAny
        /\ SinkOf(c) = SinkOf(d)
        /\ contains_endpoint(SinkOf(d))

(***************************************************************************)
(* UStatus and UCode                                                       *)
(***************************************************************************)
UCodes == {"OK", "CANCELLED", "UNKNOWN", "INVALID_ARGUMENT", "DEADLINE_EXCEEDED",
           "NOT_FOUND", "UNAVAILABLE"}

\* UCode::default(), the enum's first value
UCodeDefault == "OK"

\* UStatus { code: EnumOrUnknown<UCode>, message: Option<String> }
UStatus(code, message) == [code |-> code, message |-> message]

\* UStatus { ..Default::default() }: the code is the enum's default, there is no message
UStatusDefault == UStatus(UCodeDefault, None)

ok == [UStatusDefault EXCEPT !.code = "OK"]

fail(msg) == [UStatusDefault EXCEPT !.code = "UNKNOWN", !.message = Some(msg)]

fail_with_code(code, msg) == UStatus(code, Some(msg))

\* self.code.enum_value_or_default()
get_code(status) == IF status.code \in UCodes THEN status.code ELSE UCodeDefault

\* a check for failure that looks at the message
is_failed_by_message(status) == status.message # None

is_failed(status) == get_code(status) # "OK"

is_success(status) == get_code(status) = "OK"

get_message(status) == IF status.message # None THEN Unwrap(status.message) ELSE ""

\* Message::write_to_bytes: the fields present, a code of the default value left out
write_to_bytes(status) ==
    <<"UStatus">>
    \o (IF status.code = UCodeDefault THEN <<>> ELSE << <<"code", status.code>> >>)
    \o (IF status.message = None THEN <<>> ELSE << <<"message", Unwrap(status.message)>> >>)

\* Message::parse_from_bytes for a UStatus
parse_from_bytes(bytes) ==
    LET fields == {bytes[i] : i \in 2..Len(bytes)}
        codes == {f[2] : f \in {g \in fields : g[1] = "code"}}
        messages == {f[2] : f \in {g \in fields : g[1] = "message"}}
    IN  UStatus(IF codes = {} THEN UCodeDefault ELSE Unwrap(codes), messages)

(***************************************************************************)
(* A caller of UStatus: it creates one status, by a factory function or as *)
(* a struct literal, and calls each of the status' methods on it once.     *)
(***************************************************************************)
StatusMessages == {"something went wrong", "the message"}
StatusMethods == {"get_code", "is_failed", "is_success", "get_message"}

Created(by, value) == [by |-> by, value |-> value]

StatusCreated(by, value) ==
    /\ ustatus = None
    /\ ustatus' = Some(Created(by, value))
    /\ ustatus_calls' = << >>
    /\ UNCHANGED <<reg_vars, disp_vars>>

ok_called == StatusCreated("ok", ok)

fail_called == \E msg \in StatusMessages : StatusCreated("fail", fail(msg))

fail_with_code_called ==
    \E code \in UCodes, msg \in StatusMessages :
        StatusCreated("fail_with_code", fail_with_code(code, msg))

\* UStatus { ..Default::default() }
default_constructed == StatusCreated("default", UStatusDefault)

\* UStatus { code: EnumOrUnknown::from(code), ..Default::default() }
code_constructed ==
    \E code \in UCodes : StatusCreated("code", [UStatusDefault EXCEPT !.code = code])

MethodResult(method, status) ==
    CASE method = "get_code" -> get_code(status)
      [] method = "is_failed" -> is_failed(status)
      [] method = "is_success" -> is_success(status)
      [] method = "get_message" -> get_message(status)

MethodCalled(method) ==
    /\ ustatus # None
    /\ method \notin DOMAIN ustatus_calls
    /\ ustatus_calls' = [m \in DOMAIN ustatus_calls \cup {method} |->
                            IF m = method
                            THEN MethodResult(method, Unwrap(ustatus).value)
                            ELSE ustatus_calls[m]]
    /\ UNCHANGED ustatus
    /\ UNCHANGED <<reg_vars, disp_vars>>

get_code_called == MethodCalled("get_code")
is_failed_called == MethodCalled("is_failed")
is_success_called == MethodCalled("is_success")
get_message_called == MethodCalled("get_message")

(***************************************************************************)
(* ServiceInvocationError and the results of a request handler             *)
(***************************************************************************)
NotFound(msg) == [variant |-> "NotFound", msg |-> msg]
DeadlineExceeded == [variant |-> "DeadlineExceeded", msg |-> "request timed out"]
OtherError(msg) == [variant |-> "Other", msg |-> msg]

\* UStatus::from(ServiceInvocationError)
UStatusFrom(e) ==
    CASE e.variant = "NotFound" -> fail_with_code("NOT_FOUND", e.msg)
      [] e.variant = "DeadlineExceeded" -> fail_with_code("DEADLINE_EXCEEDED", e.msg)
      [] OTHER -> fail_with_code("UNKNOWN", e.msg)

UPayload(data, format) == [data |-> data, format |-> format]

InvokeOk(response_payload) == [ok |-> TRUE, value |-> response_payload, error |-> NotFound("")]
InvokeErr(e) == [ok |-> FALSE, value |-> None, error |-> e]

(***************************************************************************)
(* Messages                                                                *)
(***************************************************************************)
UAttributes(type_, id, source, sink, ttl, priority, payload_format, reqid, commstatus) ==
    [type_ |-> type_, id |-> id, source |-> source, sink |-> sink, ttl |-> ttl,
     priority |-> priority, payload_format |-> payload_format,
     reqid |-> reqid, commstatus |-> commstatus]

UMessage(attributes, payload) == [attributes |-> attributes, payload |-> payload]

\* UPriority, in rising order
PriorityRank(priority) ==
    CASE priority = "CS0" -> 0 [] priority = "CS1" -> 1 [] priority = "CS2" -> 2
      [] priority = "CS3" -> 3 [] priority = "CS4" -> 4 [] priority = "CS5" -> 5
      [] OTHER -> 6

\* UAttributesValidators::Request.validator().validate(attributes): the error, if any
validate(attributes) ==
    CASE attributes.type_ # "REQUEST" -> Some("Wrong Message Type")
      [] attributes.id = None -> Some("Attributes must contain a message ID")
      [] attributes.source = None -> Some("Attributes must contain a source URI")
      [] ~is_rpc_response(Unwrap(attributes.source)) -> Some("Invalid source URI")
      [] attributes.sink = None -> Some("Attributes must contain a sink URI")
      [] ~is_rpc_method(Unwrap(attributes.sink)) -> Some("Invalid sink URI")
      [] attributes.ttl = None -> Some("RPC request message must contain a TTL")
      [] Unwrap(attributes.ttl) < 1 -> Some("RPC request message's TTL must not be 0")
      [] PriorityRank(attributes.priority) < 4 -> Some("RPC request message must have a priority of at least CS4")
      [] OTHER -> None

\* crate::UUID::build(): an id no request carries
BuiltUUID(t) == <<"built", t>>

(***************************************************************************)
(* Inputs of the dispatcher                                                *)
(***************************************************************************)
\* the largest ttl a request of the model carries
MaxTtl == 2
\* the race is followed until one unit after the largest deadline
MaxElapsed == MaxTtl + 1
\* request_timeout of a request without ttl
DefaultTtl == 10000

Tasks == {"t1"}
MessageIds == {None, Some(<<"request", 1>>), Some(<<"request", 2>>)}
Sources == {None, Some(UUri("localhost", <<0, 41216>>, 1, 0)),
            Some(UUri("localhost", <<0, 41216>>, 1, 1))}
Sinks == {None, Some(UUri("localhost", <<0, 41472>>, 1, 28672)),
          Some(UUri("localhost", <<0, 41472>>, 1, 0)),
          Some(UUri("localhost", <<0, 41472>>, 1, 65536))}
Ttls == {None} \cup {Some(n) : n \in 0..MaxTtl}
Priorities == {"CS1", "CS4", "CS5"}
PayloadFormats == {"UNSPECIFIED", "TEXT"}
Payloads == {None, Some("Hello")}

Messages ==
    {UMessage(None, None)} \cup
    {UMessage(Some(UAttributes(type_, id, source, sink, ttl, priority, format, None, None)),
              payload) :
        type_ \in {"REQUEST", "PUBLISH"}, id \in MessageIds, source \in Sources,
        sink \in Sinks, ttl \in Ttls, priority \in Priorities,
        format \in PayloadFormats, payload \in Payloads}

\* what a request handler may answer
HandlerResults ==
    {InvokeOk(None),
     InvokeOk(Some(UPayload("Hello World", "PROTOBUF_WRAPPED_IN_ANY"))),
     InvokeOk(Some(UPayload("Hello World", "TEXT"))),
     InvokeErr(NotFound("no such object")),
     InvokeErr(DeadlineExceeded),
     InvokeErr(OtherError("failure"))}

SendStatuses == {"OK", "UNAVAILABLE"}

(***************************************************************************)
(* RequestListener                                                         *)
(*                                                                         *)
(* on_receive runs in the steps its suspension points cut it into:         *)
(*   on_receive        validates and, for a valid request, invokes the     *)
(*                     handler; for an invalid one with an id and a        *)
(*                     response address, passes the error response to send *)
(*   handler_completes the handler's future resolves when polled: its      *)
(*                     result is turned into the response, passed to send  *)
(*   timeout_elapses   the timer is found elapsed with the handler pending *)
(*   send_returns      transport.send returns                              *)
(* tokio's timeout polls the handler's future before the timer, so a       *)
(* handler that is ready when the task is polled wins the race however     *)
(* late that is.                                                           *)
(***************************************************************************)
\* u16::try_from(uri.resource_id).ok() of the sink
SinkResourceId(attributes) ==
    IF attributes.sink # None /\ Unwrap(attributes.sink).resource_id <= 65535
    THEN Some(Unwrap(attributes.sink).resource_id)
    ELSE None

\* a deadline that is the default whatever the request's ttl
request_timeout_default(attributes) == DefaultTtl

\* attributes.ttl.unwrap_or(10_000)
request_timeout(attributes) ==
    IF attributes.ttl = None THEN DefaultTtl ELSE Unwrap(attributes.ttl)

\* payload.map(|data| UPayload::new(data, payload_format))
request_payload(msg) ==
    IF msg.payload = None
    THEN None
    ELSE Some(UPayload(Unwrap(msg.payload), Unwrap(msg.attributes).payload_format))

Invocation(resource_id, payload) == [resource_id |-> resource_id, request_payload |-> payload]

\* UMessageBuilder::response_for_request(request_attributes), before build
response_for_request(t, request) ==
    UAttributes("RESPONSE", Some(BuiltUUID(t)), request.sink, request.source, None,
                request.priority, "UNSPECIFIED", request.id, None)

\* an Ok arm that builds the response without the handler's payload
SuccessResponse_no_payload(t, request, response_payload) ==
    UMessage(Some(response_for_request(t, request)), None)

\* the Ok arm: build_with_payload(payload.payload(), format), or build()
SuccessResponse(t, request, response_payload) ==
    IF response_payload # None
    THEN UMessage(Some([response_for_request(t, request) EXCEPT
                            !.payload_format = Unwrap(response_payload).format]),
                  Some(Unwrap(response_payload).data))
    ELSE UMessage(Some(response_for_request(t, request)), None)

\* an Err arm that forgets with_comm_status
ErrorResponse_no_commstatus(t, request, e) ==
    UMessage(Some([response_for_request(t, request) EXCEPT !.payload_format = "PROTOBUF"]),
             Some(write_to_bytes(UStatusFrom(e))))

\* the Err arm: with_comm_status(error.get_code()).build_with_protobuf_payload(&error)
ErrorResponse(t, request, e) ==
    UMessage(Some([response_for_request(t, request) EXCEPT
                       !.commstatus = Some(get_code(UStatusFrom(e))),
                       !.payload_format = "PROTOBUF"]),
             Some(write_to_bytes(UStatusFrom(e))))

\* a response built from the request's attributes without its id and its source
Response_uncorrelated(t, request, result) ==
    IF result.ok
    THEN SuccessResponse(t, [request EXCEPT !.id = None, !.source = None], result.value)
    ELSE ErrorResponse(t, [request EXCEPT !.id = None, !.source = None], result.error)

\* let response = match outcome { .. }
Response(t, request, result) ==
    IF result.ok
    THEN SuccessResponse(t, request, result.value)
    ELSE ErrorResponse(t, request, result.error)

\* an error response that is not correlated to the invalid message
InvalidRequestResponse_no_reqid(t, validation_error, msg) ==
    LET attributes == Unwrap(msg.attributes)
    IN  IF /\ attributes.id # None
           /\ attributes.source # None
           /\ is_rpc_response(Unwrap(attributes.source))
        THEN Some(UMessage(
                 Some(UAttributes("RESPONSE", Some(BuiltUUID(t)), attributes.sink,
                                  attributes.source, None, "CS4", "PROTOBUF", None,
                                  Some("INVALID_ARGUMENT"))),
                 Some(write_to_bytes(fail_with_code("INVALID_ARGUMENT", validation_error)))))
        ELSE None

\* an error response sent to any source address, response-shaped or not
InvalidRequestResponse_any_source(t, validation_error, msg) ==
    LET attributes == Unwrap(msg.attributes)
    IN  IF /\ attributes.id # None
           /\ attributes.source # None
        THEN Some(UMessage(
                 Some(UAttributes("RESPONSE", Some(BuiltUUID(t)), attributes.sink,
                                  attributes.source, None, "CS4", "PROTOBUF", attributes.id,
                                  Some("INVALID_ARGUMENT"))),
                 Some(write_to_bytes(fail_with_code("INVALID_ARGUMENT", validation_error)))))
        ELSE None

\* an error response that takes the priority of the invalid message
InvalidRequestResponse_request_priority(t, validation_error, msg) ==
    LET attributes == Unwrap(msg.attributes)
    IN  IF /\ attributes.id # None
           /\ attributes.source # None
           /\ is_rpc_response(Unwrap(attributes.source))
        THEN Some(UMessage(
                 Some(UAttributes("RESPONSE", Some(BuiltUUID(t)), attributes.sink,
                                  attributes.source, None, attributes.priority, "PROTOBUF",
                                  attributes.id, Some("INVALID_ARGUMENT"))),
                 Some(write_to_bytes(fail_with_code("INVALID_ARGUMENT", validation_error)))))
        ELSE None

\* the error response of process_invalid_request, None when the message is dropped
InvalidRequestResponse(t, validation_error, msg) ==
    LET attributes == Unwrap(msg.attributes)
    IN  IF /\ attributes.id # None
           /\ attributes.source # None
           /\ is_rpc_response(Unwrap(attributes.source))
        THEN Some(UMessage(
                 Some(UAttributes("RESPONSE", Some(BuiltUUID(t)), attributes.sink,
                                  attributes.source, None, "CS4", "PROTOBUF", attributes.id,
                                  Some(get_code(fail_with_code("INVALID_ARGUMENT",
                                                               validation_error))))),
                 Some(write_to_bytes(fail_with_code("INVALID_ARGUMENT", validation_error)))))
        ELSE None

Sent(message, at) == [message |-> message, at |-> at]

\* a timer that never becomes ready
TimerElapsed_never(time, timeout) == FALSE

\* a timer that is ready one unit early
TimerElapsed_early(time, timeout) == time + 1 >= timeout

\* the timer of tokio::time::timeout(Duration::from_millis(request_timeout), ..) is ready
TimerElapsed(time, timeout) == time >= timeout

process_invalid_request(t, validation_error, msg) ==
    /\ IF InvalidRequestResponse(t, validation_error, msg) = None
       THEN /\ task_pc' = [task_pc EXCEPT ![t] = "done"]
            /\ UNCHANGED sent
       ELSE /\ task_pc' = [task_pc EXCEPT ![t] = "sending"]
            /\ sent' = [sent EXCEPT ![t] =
                   Append(@, Sent(Unwrap(InvalidRequestResponse(t, validation_error, msg)),
                                  elapsed[t]))]
    /\ UNCHANGED invocations

process_valid_request(t, msg) ==
    /\ IF SinkResourceId(Unwrap(msg.attributes)) = None
       THEN /\ task_pc' = [task_pc EXCEPT ![t] = "done"]
            /\ UNCHANGED invocations
       ELSE /\ task_pc' = [task_pc EXCEPT ![t] = "awaiting"]
            /\ invocations' = [invocations EXCEPT ![t] =
                   Append(@, Invocation(Unwrap(SinkResourceId(Unwrap(msg.attributes))),
                                        request_payload(msg)))]
    /\ UNCHANGED sent

\* an entry of the log: the transport calls on_receive, a dispatch calls send, send returns
LogEntry(call, t) == <<call, t>>

\* a listener that hands a message without attributes to the handler
on_receive_from_unchecked(t, messages) ==
    /\ task_pc[t] = "idle"
    /\ \E msg \in messages :
          /\ task_msg' = [task_msg EXCEPT ![t] = Some(msg)]
          /\ IF msg.attributes = None
             THEN /\ task_pc' = [task_pc EXCEPT ![t] = "awaiting"]
                  /\ invocations' = [invocations EXCEPT ![t] =
                         Append(@, Invocation(0, None))]
                  /\ UNCHANGED sent
             ELSE IF validate(Unwrap(msg.attributes)) # None
                  THEN process_invalid_request(t, Unwrap(validate(Unwrap(msg.attributes))), msg)
                  ELSE process_valid_request(t, msg)
    /\ transport_log' = transport_log \o <<LogEntry("on_receive", t)>>
                            \o (IF sent'[t] # sent[t] THEN <<LogEntry("send", t)>> ELSE <<>>)
    /\ UNCHANGED <<elapsed, outcome, send_result>>
    /\ UNCHANGED <<reg_vars, status_vars>>

on_receive_from(t, messages) ==
    /\ task_pc[t] = "idle"
    /\ \E msg \in messages :
          /\ task_msg' = [task_msg EXCEPT ![t] = Some(msg)]
          /\ IF msg.attributes = None
             THEN /\ task_pc' = [task_pc EXCEPT ![t] = "done"]
                  /\ UNCHANGED <<invocations, sent>>
             ELSE IF validate(Unwrap(msg.attributes)) # None
                  THEN process_invalid_request(t, Unwrap(validate(Unwrap(msg.attributes))), msg)
                  ELSE process_valid_request(t, msg)
    /\ transport_log' = transport_log \o <<LogEntry("on_receive", t)>>
                            \o (IF sent'[t] # sent[t] THEN <<LogEntry("send", t)>> ELSE <<>>)
    /\ UNCHANGED <<elapsed, outcome, send_result>>
    /\ UNCHANGED <<reg_vars, status_vars>>

on_receive(t) == on_receive_from(t, Messages)

Request(t) == Unwrap(Unwrap(task_msg[t]).attributes)

Outcome(result, by, at) == [result |-> result, by |-> by, at |-> at]

\* a race whose timer answers while the handler's result is still awaited
Resolve_late_result_sent(t, result, by) ==
    /\ outcome' = [outcome EXCEPT ![t] = Some(Outcome(result, by, elapsed[t]))]
    /\ sent' = [sent EXCEPT ![t] = Append(@, Sent(Response(t, Request(t), result), elapsed[t]))]
    /\ task_pc' = [task_pc EXCEPT ![t] = IF by = "timer" THEN "awaiting" ELSE "sending"]
    /\ transport_log' = Append(transport_log, LogEntry("send", t))
    /\ UNCHANGED <<task_msg, elapsed, invocations, send_result>>
    /\ UNCHANGED <<reg_vars, status_vars>>

\* a race that answers every error of the handler with the code UNKNOWN
Resolve_handler_errors_unknown(t, result, by) ==
    LET answered == IF by = "handler" /\ ~result.ok
                    THEN InvokeErr(OtherError(result.error.msg))
                    ELSE result
    IN  /\ outcome' = [outcome EXCEPT ![t] = Some(Outcome(result, by, elapsed[t]))]
        /\ sent' = [sent EXCEPT ![t] =
               Append(@, Sent(Response(t, Request(t), answered), elapsed[t]))]
        /\ task_pc' = [task_pc EXCEPT ![t] = "sending"]
        /\ transport_log' = Append(transport_log, LogEntry("send", t))
        /\ UNCHANGED <<task_msg, elapsed, invocations, send_result>>
        /\ UNCHANGED <<reg_vars, status_vars>>

\* a race whose response is sent only while the request's endpoint is in the registry
Resolve_if_registered(t, result, by) ==
    /\ outcome' = [outcome EXCEPT ![t] = Some(Outcome(result, by, elapsed[t]))]
    /\ IF contains_endpoint(Unwrap(Request(t).sink).resource_id)
       THEN /\ sent' = [sent EXCEPT ![t] =
                   Append(@, Sent(Response(t, Request(t), result), elapsed[t]))]
            /\ task_pc' = [task_pc EXCEPT ![t] = "sending"]
            /\ transport_log' = Append(transport_log, LogEntry("send", t))
       ELSE /\ task_pc' = [task_pc EXCEPT ![t] = "done"]
            /\ UNCHANGED <<sent, transport_log>>
    /\ UNCHANGED <<task_msg, elapsed, invocations, send_result>>
    /\ UNCHANGED <<reg_vars, status_vars>>

\* the race is decided: the response is built and passed to transport.send
Resolve(t, result, by) ==
    /\ outcome' = [outcome EXCEPT ![t] = Some(Outcome(result, by, elapsed[t]))]
    /\ sent' = [sent EXCEPT ![t] = Append(@, Sent(Response(t, Request(t), result), elapsed[t]))]
    /\ task_pc' = [task_pc EXCEPT ![t] = "sending"]
    /\ transport_log' = Append(transport_log, LogEntry("send", t))
    /\ UNCHANGED <<task_msg, elapsed, invocations, send_result>>
    /\ UNCHANGED <<reg_vars, status_vars>>

handler_completes(t) ==
    /\ task_pc[t] = "awaiting"
    /\ \E result \in HandlerResults : Resolve(t, result, "handler")

\* a timeout that answers and goes on awaiting the handler
timeout_elapses_handler_kept(t) ==
    /\ task_pc[t] = "awaiting"
    /\ TimerElapsed(elapsed[t], request_timeout(Request(t)))
    /\ outcome[t] = None
    /\ outcome' = [outcome EXCEPT ![t] = Some(Outcome(InvokeErr(DeadlineExceeded), "timer",
                                                      elapsed[t]))]
    /\ sent' = [sent EXCEPT ![t] =
           Append(@, Sent(Response(t, Request(t), InvokeErr(DeadlineExceeded)), elapsed[t]))]
    /\ transport_log' = Append(transport_log, LogEntry("send", t))
    /\ UNCHANGED <<task_pc, task_msg, elapsed, invocations, send_result>>
    /\ UNCHANGED <<reg_vars, status_vars>>

timeout_elapses(t) ==
    /\ task_pc[t] = "awaiting"
    /\ TimerElapsed(elapsed[t], request_timeout(Request(t)))
    /\ Resolve(t, InvokeErr(DeadlineExceeded), "timer")

\* a send that is attempted once more when it has failed
send_returns_retry(t) ==
    /\ task_pc[t] = "sending"
    /\ \E status \in SendStatuses :
          /\ send_result' = [send_result EXCEPT ![t] = Some(status)]
          /\ IF status # "OK" /\ Len(sent[t]) < 2
             THEN /\ sent' = [sent EXCEPT ![t] = Append(@, sent[t][1])]
                  /\ task_pc' = task_pc
                  /\ transport_log' = transport_log
                         \o <<LogEntry("send_returned", t), LogEntry("send", t)>>
             ELSE /\ sent' = sent
                  /\ task_pc' = [task_pc EXCEPT ![t] = "done"]
                  /\ transport_log' = Append(transport_log, LogEntry("send_returned", t))
    /\ UNCHANGED <<task_msg, elapsed, invocations, outcome>>
    /\ UNCHANGED <<reg_vars, status_vars>>

send_returns(t) ==
    /\ task_pc[t] = "sending"
    /\ \E status \in SendStatuses : send_result' = [send_result EXCEPT ![t] = Some(status)]
    /\ task_pc' = [task_pc EXCEPT ![t] = "done"]
    /\ transport_log' = Append(transport_log, LogEntry("send_returned", t))
    /\ UNCHANGED <<task_msg, elapsed, invocations, outcome, sent>>
    /\ UNCHANGED <<reg_vars, status_vars>>

\* time passes while handlers run
Tick ==
    /\ \E t \in DOMAIN task_pc : task_pc[t] = "awaiting"
    /\ \A t \in DOMAIN task_pc : task_pc[t] = "awaiting" => elapsed[t] < MaxElapsed
    /\ elapsed' = [t \in DOMAIN task_pc |->
                      IF task_pc[t] = "awaiting" THEN elapsed[t] + 1 ELSE elapsed[t]]
    /\ UNCHANGED <<task_pc, task_msg, invocations, outcome, sent, send_result,
                   transport_log>>
    /\ UNCHANGED <<reg_vars, status_vars>>

DispatchInit ==
    /\ task_pc = [t \in Tasks |-> "idle"]
    /\ task_msg = [t \in Tasks |-> None]
    /\ elapsed = [t \in Tasks |-> 0]
    /\ invocations = [t \in Tasks |-> <<>>]
    /\ outcome = [t \in Tasks |-> None]
    /\ sent = [t \in Tasks |-> <<>>]
    /\ send_result = [t \in Tasks |-> None]
    /\ transport_log = <<>>

DispatchNext ==
    \/ \E t \in DOMAIN task_pc : on_receive(t)
    \/ \E t \in DOMAIN task_pc : handler_completes(t)
    \/ \E t \in DOMAIN task_pc : timeout_elapses(t)
    \/ \E t \in DOMAIN task_pc : send_returns(t)
    \/ Tick

DispatchInitAll == RegistryInit /\ DispatchInit /\ NoStatus

DispatchSpec == DispatchInitAll /\ [][DispatchNext]_vars

\* The runtime keeps polling a dispatch: time passes, a timer that is ready is found
\* ready, and a send that the transport answers returns. Nothing makes a handler
\* complete.
DispatchFairness ==
    /\ WF_vars(Tick)
    /\ \A t \in Tasks : WF_vars(timeout_elapses(t))
    /\ \A t \in Tasks : WF_vars(send_returns(t))

FairDispatchSpec == DispatchSpec /\ DispatchFairness

(***************************************************************************)
(* Two messages delivered to one RequestListener                           *)
(*                                                                         *)
(* The transport calls on_receive of the listener of one endpoint twice;   *)
(* each call is a dispatch of its own. Each delivery carries an id of its  *)
(* own, a response address and the endpoint's method as sink; it is a      *)
(* valid request with a ttl of 1, or lacks the ttl.                        *)
(***************************************************************************)
ConcurrentTasks == {"t1", "t2"}

\* the id of the message delivered to a dispatch
DeliveredId(t) == Some(<<"request", IF t = "t1" THEN 1 ELSE 2>>)

ConcurrentMessages(t) ==
    {msg \in Messages :
        /\ msg.attributes # None
        /\ Unwrap(msg.attributes).type_ = "REQUEST"
        /\ Unwrap(msg.attributes).id = DeliveredId(t)
        /\ Unwrap(msg.attributes).source = Some(UUri("localhost", <<0, 41216>>, 1, 0))
        /\ Unwrap(msg.attributes).sink = Some(UUri("localhost", <<0, 41472>>, 1, 28672))
        /\ Unwrap(msg.attributes).ttl \in {None, Some(1)}
        /\ Unwrap(msg.attributes).priority = "CS4"
        /\ Unwrap(msg.attributes).payload_format = "TEXT"
        /\ msg.payload = Some("Hello")}

\* a listener that takes a message only when no other dispatch is under way
on_receive_serialized(t) ==
    /\ \A u \in DOMAIN task_pc : task_pc[u] \in {"idle", "done"}
    /\ on_receive_from(t, ConcurrentMessages(t))

on_receive_concurrent(t) == on_receive_from(t, ConcurrentMessages(t))

ConcurrentInit ==
    /\ RegistryInit
    /\ NoStatus
    /\ task_pc = [t \in ConcurrentTasks |-> "idle"]
    /\ task_msg = [t \in ConcurrentTasks |-> None]
    /\ elapsed = [t \in ConcurrentTasks |-> 0]
    /\ invocations = [t \in ConcurrentTasks |-> <<>>]
    /\ outcome = [t \in ConcurrentTasks |-> None]
    /\ sent = [t \in ConcurrentTasks |-> <<>>]
    /\ send_result = [t \in ConcurrentTasks |-> None]
    /\ transport_log = <<>>

ConcurrentNext ==
    \/ \E t \in DOMAIN task_pc : on_receive_concurrent(t)
    \/ \E t \in DOMAIN task_pc : handler_completes(t)
    \/ \E t \in DOMAIN task_pc : timeout_elapses(t)
    \/ \E t \in DOMAIN task_pc : send_returns(t)
    \/ Tick

ConcurrentSpec == ConcurrentInit /\ [][ConcurrentNext]_vars

(***************************************************************************)
(* The server: one endpoint is registered and unregistered while a message *)
(* is dispatched by its listener                                           *)
(***************************************************************************)
ServerCallers == {"c1"}

\* the resource id of the endpoint
ServerResourceId == 28672

server_register_endpoint_call(c) ==
    EndpointCall(c, "register", None, ServerResourceId, "H1")

server_unregister_endpoint_call(c) ==
    EndpointCall(c, "unregister", None, ServerResourceId, "H1")

\* a message without attributes, and requests to the endpoint: a valid one, one
\* without ttl, one without ttl and id
ServerMessages ==
    {msg \in Messages :
        \/ msg.attributes = None
        \/ /\ Unwrap(msg.attributes).type_ = "REQUEST"
           /\ Unwrap(msg.attributes).source = Some(UUri("localhost", <<0, 41216>>, 1, 0))
           /\ Unwrap(msg.attributes).sink
                  = Some(UUri("localhost", <<0, 41472>>, 1, ServerResourceId))
           /\ <<Unwrap(msg.attributes).id, Unwrap(msg.attributes).ttl>>
                  \in {<<Some(<<"request", 1>>), Some(1)>>,
                       <<Some(<<"request", 1>>), None>>,
                       <<None, None>>}
           /\ Unwrap(msg.attributes).priority = "CS4"
           /\ Unwrap(msg.attributes).payload_format = "TEXT"
           /\ msg.payload = Some("Hello")}

\* a listener that waits for the registry's lock before it looks at a message
on_receive_locking(t) ==
    /\ LockFree(lock)
    /\ on_receive_from(t, ServerMessages)

on_receive_server(t) == on_receive_from(t, ServerMessages)

ServerInit == RegistryInit /\ DispatchInit /\ NoStatus

ServerNext ==
    \/ \E c \in ServerCallers : server_register_endpoint_call(c)
    \/ \E c \in ServerCallers : server_unregister_endpoint_call(c)
    \/ \E c \in ServerCallers : endpoint_validate(c)
    \/ \E c \in ServerCallers : register_endpoint_locked(c)
    \/ \E c \in ServerCallers : register_endpoint_transport_returns(c)
    \/ \E c \in ServerCallers : unregister_endpoint_locked(c)
    \/ \E c \in ServerCallers : unregister_endpoint_transport_returns(c)
    \/ \E t \in DOMAIN task_pc : on_receive_server(t)
    \/ \E t \in DOMAIN task_pc : handler_completes(t)
    \/ \E t \in DOMAIN task_pc : timeout_elapses(t)
    \/ \E t \in DOMAIN task_pc : send_returns(t)
    \/ Tick

ServerSpec == ServerInit /\ [][ServerNext]_vars

(***************************************************************************)
(* The server with a transport that delivers to registered listeners only   *)
(***************************************************************************)
\* the transport calls on_receive of the listener registered for the endpoint
on_receive_delivered(t) ==
    /\ ServerResourceId \in DOMAIN transport_listeners
    /\ on_receive_from(t, ServerMessages)

DeliveryNext ==
    \/ \E c \in ServerCallers : server_register_endpoint_call(c)
    \/ \E c \in ServerCallers : server_unregister_endpoint_call(c)
    \/ \E c \in ServerCallers : endpoint_validate(c)
    \/ \E c \in ServerCallers : register_endpoint_locked(c)
    \/ \E c \in ServerCallers : register_endpoint_transport_returns(c)
    \/ \E c \in ServerCallers : unregister_endpoint_locked(c)
    \/ \E c \in ServerCallers : unregister_endpoint_transport_returns(c)
    \/ \E t \in DOMAIN task_pc : on_receive_delivered(t)
    \/ \E t \in DOMAIN task_pc : handler_completes(t)
    \/ \E t \in DOMAIN task_pc : timeout_elapses(t)
    \/ \E t \in DOMAIN task_pc : send_returns(t)
    \/ Tick

DeliverySpec == ServerInit /\ [][DeliveryNext]_vars

\* the timer advances and fires, and the transport's send returns
FairDeliverySpec == DeliverySpec /\ DispatchFairness

(***************************************************************************)
(* The caller of UStatus, with no server                                   *)
(***************************************************************************)
StatusInit == RegistryInit /\ NoDispatch /\ NoStatus

StatusNext ==
    \/ ok_called
    \/ fail_called
    \/ fail_with_code_called
    \/ default_constructed
    \/ code_constructed
    \/ get_code_called
    \/ is_failed_called
    \/ is_success_called
    \/ get_message_called

StatusSpec == StatusInit /\ [][StatusNext]_vars

(***************************************************************************)
(* Properties of the dispatcher                                            *)
(***************************************************************************)
Decided(t) == outcome[t] # None
Race(t) == Unwrap(outcome[t])
\* the ttl of the request of a decided dispatch
Ttl(t) == Unwrap(Request(t).ttl)
FirstSent(t) == sent[t][1]
ResponseAttributes(t) == Unwrap(FirstSent(t).message.attributes)

\* C8: when the handler of a valid request returns Ok(Some(payload)) before the ttl has
\* elapsed, the handler has been invoked once, with the resource id of the request's
\* sink and the request's payload, and one response has been passed to send: without a
\* failure comm-status, correlated to the request's id, carrying the handler's payload
\* and payload format.
C8_SuccessResponse ==
    \A t \in DOMAIN task_pc :
        (/\ Decided(t)
         /\ Race(t).by = "handler"
         /\ Race(t).result.ok
         /\ Race(t).result.value # None
         /\ Race(t).at < Ttl(t))
        => /\ Len(invocations[t]) = 1
           /\ invocations[t][1].resource_id = Unwrap(Request(t).sink).resource_id
           /\ invocations[t][1].request_payload =
                  {UPayload(data, Request(t).payload_format) :
                       data \in Unwrap(task_msg[t]).payload}
           /\ Len(sent[t]) = 1
           /\ ResponseAttributes(t).type_ = "RESPONSE"
           /\ ResponseAttributes(t).commstatus \in {None, Some("OK")}
           /\ ResponseAttributes(t).reqid = Request(t).id
           /\ FirstSent(t).message.payload = Some(Unwrap(Race(t).result.value).data)
           /\ ResponseAttributes(t).payload_format = Unwrap(Race(t).result.value).format

\* a request with payload was answered with the handler's payload, in time, and sent
C8_Witness ==
    \E t \in DOMAIN task_pc :
        /\ task_pc[t] = "done"
        /\ send_result[t] = Some("OK")
        /\ Decided(t)
        /\ Race(t).result = InvokeOk(Some(UPayload("Hello World", "PROTOBUF_WRAPPED_IN_ANY")))
        /\ Race(t).at = 1 /\ Ttl(t) = 2
        /\ Unwrap(task_msg[t]).payload = Some("Hello")
        /\ Request(t).payload_format = "TEXT"

\* C9 as stated: whenever the handler of a valid request has not completed within the
\* ttl, one response with comm-status DEADLINE_EXCEEDED, correlated to the request's id,
\* is sent, and not before the ttl has elapsed.
C9_AsStated ==
    \A t \in DOMAIN task_pc :
        (Decided(t) /\ ~(Race(t).by = "handler" /\ Race(t).at <= Ttl(t)))
        => /\ Len(sent[t]) = 1
           /\ ResponseAttributes(t).commstatus = Some("DEADLINE_EXCEEDED")
           /\ ResponseAttributes(t).reqid = Request(t).id
           /\ FirstSent(t).at >= Ttl(t)

\* C9, amended: when the timeout fires, that is, the handler is still pending when the
\* dispatcher finds the ttl elapsed, one response with comm-status DEADLINE_EXCEEDED and
\* a DEADLINE_EXCEEDED status as payload, correlated to the request's id, is sent, and
\* not before the ttl has elapsed. (A handler that completes after the ttl but before
\* the dispatcher has found it elapsed has its own result sent.)
C9_TimeoutResponse ==
    \A t \in DOMAIN task_pc :
        (Decided(t) /\ Race(t).by = "timer")
        => /\ Len(invocations[t]) = 1
           /\ Len(sent[t]) = 1
           /\ ResponseAttributes(t).type_ = "RESPONSE"
           /\ ResponseAttributes(t).commstatus = Some("DEADLINE_EXCEEDED")
           /\ get_code(parse_from_bytes(Unwrap(FirstSent(t).message.payload)))
                  = "DEADLINE_EXCEEDED"
           /\ ResponseAttributes(t).reqid = Request(t).id
           /\ FirstSent(t).at >= Ttl(t)

\* the timeout has fired on a request and the response has been sent
C9_Witness ==
    \E t \in DOMAIN task_pc :
        /\ task_pc[t] = "done"
        /\ Decided(t)
        /\ Race(t).by = "timer"
        /\ Race(t).at = Ttl(t)
        /\ Len(sent[t]) = 1

\* the status code of each variant of ServiceInvocationError
CodeOfVariant(variant) ==
    CASE variant = "NotFound" -> "NOT_FOUND"
      [] variant = "DeadlineExceeded" -> "DEADLINE_EXCEEDED"
      [] variant = "Other" -> "UNKNOWN"

\* C10: when the handler of a valid request returns an error before the ttl has
\* elapsed, whatever its variant, one response is passed to send: its comm-status is
\* the code of the variant (NOT_FOUND for NotFound), its payload is the serialized
\* status with that code and the error's message, and it is correlated to the
\* request's id.
C10_ErrorResponse ==
    \A t \in DOMAIN task_pc :
        (/\ Decided(t)
         /\ Race(t).by = "handler"
         /\ ~Race(t).result.ok
         /\ Race(t).at < Ttl(t))
        => /\ Len(sent[t]) = 1
           /\ ResponseAttributes(t).type_ = "RESPONSE"
           /\ ResponseAttributes(t).commstatus
                  = Some(CodeOfVariant(Race(t).result.error.variant))
           /\ FirstSent(t).message.payload # None
           /\ get_code(parse_from_bytes(Unwrap(FirstSent(t).message.payload)))
                  = CodeOfVariant(Race(t).result.error.variant)
           /\ get_message(parse_from_bytes(Unwrap(FirstSent(t).message.payload)))
                  = Race(t).result.error.msg
           /\ ResponseAttributes(t).reqid = Request(t).id

\* a handler answered NotFound in time and the error response has been sent
C10_Witness ==
    \E t \in DOMAIN task_pc :
        /\ task_pc[t] = "done"
        /\ Decided(t)
        /\ Race(t).by = "handler"
        /\ Race(t).result = InvokeErr(NotFound("no such object"))
        /\ Race(t).at < Ttl(t)
        /\ Len(sent[t]) = 1

\* the message a dispatch has received carries attributes
HasAttributes(t) == task_msg[t] # None /\ Unwrap(task_msg[t]).attributes # None
\* the message fails the validation of on_receive
Invalid(t) == HasAttributes(t) /\ validate(Request(t)) # None
\* the message passes the validation of on_receive
Valid(t) == HasAttributes(t) /\ validate(Request(t)) = None
\* the message carries an id and a source address whose resource id is 0
Addressable(t) ==
    /\ HasAttributes(t)
    /\ Request(t).id # None
    /\ Request(t).source # None
    /\ Unwrap(Request(t).source).resource_id = 0

\* C11: once a message that fails the validation but carries an id and a source address
\* with resource id 0 has been received, the handler has not been invoked and exactly
\* one message has been passed to send: a RESPONSE whose reqid is the message's id, whose
\* comm-status is INVALID_ARGUMENT and whose payload is a serialized status with code
\* INVALID_ARGUMENT.
C11_InvalidArgumentResponse ==
    \A t \in DOMAIN task_pc :
        (Invalid(t) /\ Addressable(t))
        => /\ invocations[t] = <<>>
           /\ outcome[t] = None
           /\ Len(sent[t]) = 1
           /\ ResponseAttributes(t).type_ = "RESPONSE"
           /\ ResponseAttributes(t).reqid = Request(t).id
           /\ ResponseAttributes(t).commstatus = Some("INVALID_ARGUMENT")
           /\ FirstSent(t).message.payload # None
           /\ get_code(parse_from_bytes(Unwrap(FirstSent(t).message.payload)))
                  = "INVALID_ARGUMENT"

\* a request without ttl, with an id and a response address, was answered and the send
\* has returned
C11_Witness ==
    \E t \in DOMAIN task_pc :
        /\ task_pc[t] = "done"
        /\ Invalid(t) /\ Addressable(t)
        /\ Request(t).type_ = "REQUEST"
        /\ Request(t).ttl = None
        /\ Len(sent[t]) = 1
        /\ send_result[t] = Some("OK")

\* C12: once a message that fails the validation and lacks an id, or lacks a source
\* address, or has a source address whose resource id is not 0, has been received, it
\* has been dropped: the handler has not been invoked, nothing has been passed to send,
\* and on_receive has returned.
C12_InvalidRequestDropped ==
    \A t \in DOMAIN task_pc :
        (Invalid(t) /\ ~Addressable(t))
        => /\ invocations[t] = <<>>
           /\ outcome[t] = None
           /\ sent[t] = <<>>
           /\ send_result[t] = None
           /\ task_pc[t] = "done"

\* an invalid message with an id and a source address that is not response-shaped was
\* dropped
C12_Witness ==
    \E t \in DOMAIN task_pc :
        /\ task_pc[t] = "done"
        /\ Invalid(t)
        /\ Request(t).id # None
        /\ Request(t).source # None
        /\ Unwrap(Request(t).source).resource_id # 0
        /\ sent[t] = <<>>

\* a valid request, or an invalid message with an id and a response address
Accepted(t) == Valid(t) \/ (Invalid(t) /\ Addressable(t))
\* on_receive has returned
Completed(t) == task_pc[t] = "done"

\* C13: at no point of a dispatch has send been called more than once; a dispatch of an
\* accepted message (a valid request, or an invalid message with an id and a response
\* address) that has decided its response or returned has called send exactly once,
\* also when the handler completed at or after the deadline; a dispatch of any other
\* message never calls send.
C13_OneResponse ==
    \A t \in DOMAIN task_pc :
        /\ Len(sent[t]) <= 1
        /\ (Accepted(t) /\ task_pc[t] \in {"sending", "done"}) => Len(sent[t]) = 1
        /\ (Decided(t) /\ Race(t).at >= Ttl(t)) => Len(sent[t]) = 1
        /\ ~Accepted(t) => sent[t] = <<>>
        /\ (send_result[t] # None) => Len(sent[t]) = 1

\* a handler has completed after the deadline, its response was sent and on_receive has
\* returned
C13_Witness ==
    \E t \in DOMAIN task_pc :
        /\ Completed(t)
        /\ Valid(t)
        /\ Decided(t)
        /\ Race(t).by = "handler"
        /\ Race(t).at > Ttl(t)
        /\ Len(sent[t]) = 1

\* the attributes of the i-th message a dispatch has passed to send
SentAttributes(t, i) == Unwrap(sent[t][i].message.attributes)

\* C14: every message passed to send, whether it answers a valid request with the
\* handler's payload, with the handler's error or with DEADLINE_EXCEEDED, or answers an
\* invalid message with INVALID_ARGUMENT, has the id of the message it answers as reqid,
\* that message's source as sink and that message's sink as source.
C14_Correlation ==
    \A t \in DOMAIN task_pc :
        \A i \in 1..Len(sent[t]) :
            /\ sent[t][i].message.attributes # None
            /\ SentAttributes(t, i).type_ = "RESPONSE"
            /\ SentAttributes(t, i).reqid = Request(t).id
            /\ SentAttributes(t, i).sink = Request(t).source
            /\ SentAttributes(t, i).source = Request(t).sink

\* a valid request whose source and sink differ was answered with DEADLINE_EXCEEDED
C14_Witness ==
    \E t \in DOMAIN task_pc :
        /\ Completed(t)
        /\ Valid(t)
        /\ Request(t).source # Request(t).sink
        /\ Len(sent[t]) = 1
        /\ SentAttributes(t, 1).commstatus = Some("DEADLINE_EXCEEDED")
        /\ SentAttributes(t, 1).reqid = Some(<<"request", 2>>)

\* the log has an entry of this call of this dispatch
Logged(call, t) == \E i \in 1..Len(transport_log) : transport_log[i] = LogEntry(call, t)
\* the place of the first such entry
LogIndex(call, t) ==
    CHOOSE i \in 1..Len(transport_log) :
        /\ transport_log[i] = LogEntry(call, t)
        /\ \A j \in 1..(i - 1) : transport_log[j] # LogEntry(call, t)
\* how often a dispatch has called send
SendCalls(t) == Cardinality({i \in 1..Len(transport_log) : transport_log[i] = LogEntry("send", t)})
\* the send of a dispatch has returned an error
SendFailed(t) == send_result[t] # None /\ send_result[t] # Some("OK")
\* the variables of one dispatch
TaskState(t) == <<task_pc[t], task_msg[t], elapsed[t], invocations[t], outcome[t], sent[t],
                  send_result[t]>>

\* C15: a dispatch whose send has failed, on the valid or the invalid path, has called
\* send once and has returned. The step in which the send fails passes nothing more to
\* send, leaves the registry and every other dispatch as they are, and only ends this
\* on_receive. A message that arrives when the send of another dispatch has failed is
\* processed as any other: a valid request has its handler invoked, an invalid one with
\* an id and a response address has its error response passed to send.
C15_SendFailure ==
    /\ [](\A t \in DOMAIN task_pc :
             SendFailed(t) => /\ Completed(t)
                              /\ Len(sent[t]) = 1
                              /\ SendCalls(t) = 1)
    /\ [][\A t \in DOMAIN task_pc :
             /\ (~SendFailed(t) /\ SendFailed(t)')
                => /\ sent' = sent
                   /\ task_pc'[t] = "done"
                   /\ invocations' = invocations
                   /\ reg_vars' = reg_vars
                   /\ \A u \in DOMAIN task_pc \ {t} : TaskState(u)' = TaskState(u)
             /\ (/\ task_pc[t] = "idle" /\ task_pc'[t] # "idle"
                 /\ \E u \in DOMAIN task_pc \ {t} : SendFailed(u))
                => /\ Valid(t)' => (task_pc'[t] = "awaiting" /\ Len(invocations'[t]) = 1)
                   /\ (Invalid(t)' /\ Addressable(t)')
                          => (task_pc'[t] = "sending" /\ Len(sent'[t]) = 1)
         ]_vars

\* the send of the error response to an invalid message failed; a valid request that
\* arrived after that was answered, the send of its response failed as well, and both
\* calls of on_receive have returned
C15_Witness ==
    /\ Invalid("t1") /\ SendFailed("t1") /\ Completed("t1")
    /\ Valid("t2") /\ Decided("t2") /\ SendFailed("t2") /\ Completed("t2")
    /\ LogIndex("send_returned", "t1") < LogIndex("on_receive", "t2")
    /\ SendCalls("t1") = 1 /\ SendCalls("t2") = 1

\* The future invoke_method returned. tokio::time::timeout owns it: while the timeout
\* is awaited the future is polled; when the timeout resolves, by the handler's result
\* or by the timer, the future is dropped with it and is never polled again.
HandlerFuture(t) ==
    CASE invocations[t] = <<>> -> "none"
      [] task_pc[t] = "awaiting" -> "pending"
      [] Decided(t) /\ Race(t).by = "handler" -> "completed"
      [] OTHER -> "dropped"

C17_IndependentDispatch ==
    /\ [](\A t \in DOMAIN task_pc :
             /\ task_pc[t] = "idle" => ENABLED on_receive_concurrent(t)
             /\ task_pc[t] = "awaiting" => ENABLED handler_completes(t)
             /\ task_pc[t] = "sending" => ENABLED send_returns(t))
    /\ [][\A t \in DOMAIN task_pc :
             /\ (task_pc[t] = "idle" /\ task_pc'[t] # "idle" /\ Valid(t)')
                => /\ task_pc'[t] = "awaiting"
                   /\ Len(invocations'[t]) = 1
                   /\ invocations'[t][1].resource_id = 28672
             /\ (task_pc'[t] # task_pc[t])
                => \A u \in DOMAIN task_pc \ {t} : TaskState(u)' = TaskState(u)
         ]_vars

\* two valid requests to one endpoint: the first to arrive was answered after its
\* deadline, the second was invoked while the first was pending and answered first
C17_Witness ==
    /\ Valid("t1") /\ Valid("t2")
    /\ Request("t1").sink = Request("t2").sink
    /\ Completed("t1") /\ Completed("t2")
    /\ Race("t1").by = "handler" /\ Race("t2").by = "handler"
    /\ Race("t1").at > Ttl("t1")
    /\ LogIndex("on_receive", "t1") < LogIndex("on_receive", "t2")
    /\ LogIndex("on_receive", "t2") < LogIndex("send", "t2")
    /\ LogIndex("send_returned", "t2") < LogIndex("send", "t1")

\* C18: no step of a dispatch, whatever the message, the outcome of the race and the
\* result of send, touches the registry: a step that changes anything of a dispatch
\* leaves the map of listeners, the lock and every call of register_endpoint and
\* unregister_endpoint as they are; and no step of a dispatch waits for the lock: while
\* a call holds it, on_receive can be called, a pending handler can complete, the
\* timeout can fire once the ttl has elapsed, and a send can return.
C18_RegistryUntouched ==
    /\ [][(disp_vars' # disp_vars)
            => /\ request_listeners' = request_listeners
               /\ lock' = lock
               /\ reg_vars' = reg_vars
         ]_vars
    /\ [](\A t \in DOMAIN task_pc :
             (lock # {})
             => /\ task_pc[t] = "idle" => ENABLED on_receive_server(t)
                /\ task_pc[t] = "awaiting" => ENABLED handler_completes(t)
                /\ (task_pc[t] = "awaiting" /\ elapsed[t] >= Ttl(t))
                       => ENABLED timeout_elapses(t)
                /\ task_pc[t] = "sending" => ENABLED send_returns(t))

\* a call of unregister_endpoint holds the lock, with the endpoint in the map, while a
\* request's response is with the transport
C18_Witness ==
    \E t \in DOMAIN task_pc :
        /\ lock = {"c1"}
        /\ reg_call["c1"].op = "unregister"
        /\ contains_endpoint(ServerResourceId)
        /\ Valid(t)
        /\ task_pc[t] = "sending"
        /\ Len(sent[t]) = 1

(***************************************************************************)
(* Properties of UStatus                                                   *)
(***************************************************************************)
\* the status the caller has created
StatusValue == Unwrap(ustatus).value
\* the caller has called the method on its status
Called(method) == ustatus # None /\ method \in DOMAIN ustatus_calls

\* C19 as stated: get_code of a status created without providing an error code, by
\* UStatus::fail or as UStatus { ..Default::default() }, has returned UNKNOWN.
C19_AsStated ==
    (Called("get_code") /\ Unwrap(ustatus).by \in {"fail", "default"})
    => ustatus_calls["get_code"] = "UNKNOWN"

\* C20: for a status of any code c, however it was created, is_failed has returned
\* whether c differs from OK and is_success whether c is OK, so each is the negation of
\* the other; for UStatus { ..Default::default() } is_success has returned true and
\* is_failed false.
C20_FailedIffNotOk ==
    /\ Called("is_failed") => ustatus_calls["is_failed"] = (StatusValue.code # "OK")
    /\ Called("is_success") => ustatus_calls["is_success"] = (StatusValue.code = "OK")
    /\ (Called("is_failed") /\ Called("is_success"))
           => ustatus_calls["is_success"] = ~ustatus_calls["is_failed"]
    /\ (Called("is_success") /\ Unwrap(ustatus).by = "default")
           => ustatus_calls["is_success"] = TRUE
    /\ (Called("is_failed") /\ Unwrap(ustatus).by = "default")
           => ustatus_calls["is_failed"] = FALSE

\* is_failed and is_success have been called on UStatus { ..Default::default() }
C20_Witness ==
    /\ Called("is_failed") /\ Called("is_success")
    /\ Unwrap(ustatus).by = "default"
    /\ ustatus_calls["is_success"] = TRUE
    /\ ustatus_calls["is_failed"] = FALSE

(***************************************************************************)
(* Further properties of the dispatcher                                    *)
(***************************************************************************)
\* C21: with a timer that fires and a send that returns, every valid request that has
\* been received leads to one response passed to send and to the return of on_receive,
\* whether or not its handler ever completes; and the step in which the timer is found
\* elapsed is the step that passes the DEADLINE_EXCEEDED response to send.
C21_ResponseEventually ==
    /\ \A t \in Tasks : Valid(t) ~> (Len(sent[t]) = 1)
    /\ \A t \in Tasks : Valid(t) ~> Completed(t)
    /\ [][\A t \in Tasks :
             (~Decided(t) /\ Decided(t)' /\ Race(t)'.by = "timer")
             => /\ Len(sent'[t]) = 1
                /\ SentAttributes(t, 1)'.commstatus = Some("DEADLINE_EXCEEDED")
                /\ task_pc'[t] = "sending"
         ]_vars

\* the handler of a valid request never completed: the race was decided by the timer at
\* the deadline, the response left with the time of the deadline, and on_receive returned
C21_Witness ==
    \E t \in DOMAIN task_pc :
        /\ Completed(t)
        /\ Valid(t)
        /\ HandlerFuture(t) = "dropped"
        /\ Race(t).at = Ttl(t)
        /\ FirstSent(t).at = Ttl(t)
        /\ send_result[t] # None

\* C22: the response to an invalid message with an id and a response address has the
\* message's source as sink, the message's sink as source (none when the message has
\* none), priority CS4 whatever the message's priority, an id of its own that differs
\* from its reqid, the payload format PROTOBUF, and as payload the serialized status
\* whose code is INVALID_ARGUMENT and whose message is the validator's error text.
C22_InvalidResponseFields ==
    \A t \in DOMAIN task_pc :
        (Invalid(t) /\ Addressable(t))
        => /\ Len(sent[t]) = 1
           /\ SentAttributes(t, 1).sink = Request(t).source
           /\ SentAttributes(t, 1).source = Request(t).sink
           /\ SentAttributes(t, 1).priority = "CS4"
           /\ SentAttributes(t, 1).id # None
           /\ SentAttributes(t, 1).id # SentAttributes(t, 1).reqid
           /\ SentAttributes(t, 1).id # Request(t).id
           /\ SentAttributes(t, 1).payload_format = "PROTOBUF"
           /\ sent[t][1].message.payload
                  = Some(write_to_bytes(fail_with_code("INVALID_ARGUMENT",
                                                       Unwrap(validate(Request(t))))))
           /\ get_message(parse_from_bytes(Unwrap(sent[t][1].message.payload)))
                  = Unwrap(validate(Request(t)))

\* a request of priority CS1 without a sink was answered: the response has no source
C22_Witness ==
    \E t \in DOMAIN task_pc :
        /\ Invalid(t) /\ Addressable(t)
        /\ Request(t).type_ = "REQUEST"
        /\ Request(t).sink = None
        /\ Request(t).priority = "CS1"
        /\ Len(sent[t]) = 1
        /\ SentAttributes(t, 1).source = None
        /\ SentAttributes(t, 1).priority = "CS4"

\* the message is a request that lacks nothing but the ttl
LacksOnlyTtl(t) ==
    /\ HasAttributes(t)
    /\ Request(t).ttl = None
    /\ validate([Request(t) EXCEPT !.ttl = Some(1)]) = None

\* C23 as stated: a request that is valid but for its missing ttl is not rejected: its
\* handler is invoked, and no response leaves before 10,000 units have passed.
C23_AsStated ==
    \A t \in DOMAIN task_pc :
        LacksOnlyTtl(t)
        => /\ Len(invocations[t]) = 1
           /\ \A i \in 1..Len(sent[t]) :
                 /\ SentAttributes(t, i).commstatus # Some("INVALID_ARGUMENT")
                 /\ sent[t][i].at >= DefaultTtl

\* C23, amended: the deadline of the race is the request's ttl: the timeout can fire as
\* soon as the ttl has elapsed and never fires before. Every request whose handler is
\* invoked carries a ttl, so the default of 10,000 is the deadline of no dispatch: a
\* request that lacks nothing but the ttl fails the validation, its handler is not
\* invoked and it is answered at once with INVALID_ARGUMENT.
C23_Deadline ==
    \A t \in DOMAIN task_pc :
        /\ (invocations[t] # <<>>)
           => /\ Request(t).ttl # None
              /\ request_timeout(Request(t)) = Ttl(t)
              /\ request_timeout(Request(t)) # DefaultTtl
        /\ (task_pc[t] = "awaiting" /\ elapsed[t] >= Ttl(t)) => ENABLED timeout_elapses(t)
        /\ (task_pc[t] = "awaiting" /\ elapsed[t] < Ttl(t)) => ~ENABLED timeout_elapses(t)
        /\ (Decided(t) /\ Race(t).by = "timer") => Race(t).at >= Ttl(t)
        /\ LacksOnlyTtl(t)
           => /\ invocations[t] = <<>>
              /\ Len(sent[t]) = 1
              /\ sent[t][1].at = 0
              /\ SentAttributes(t, 1).commstatus = Some("INVALID_ARGUMENT")

\* the request of the listener's own test, of priority CS5 and without ttl, has its
\* INVALID_ARGUMENT response with the transport
C23_Witness ==
    \E t \in DOMAIN task_pc :
        /\ LacksOnlyTtl(t)
        /\ Request(t).priority = "CS5"
        /\ Unwrap(Request(t).sink).resource_id = 28672
        /\ task_pc[t] = "sending"
        /\ invocations[t] = <<>>
        /\ SentAttributes(t, 1).commstatus = Some("INVALID_ARGUMENT")

(***************************************************************************)
(* Further properties of the registry                                      *)
(***************************************************************************)
\* the origin filter of a call is not response-shaped
InvalidOrigin(call) == call.origin_filter # None /\ Unwrap(call.origin_filter).resource_id # 0

\* C24: register_endpoint and unregister_endpoint validate before they look the
\* resource id up, the origin filter first. A call gets to the lock only with valid
\* filters. A call with an invalid origin filter or a resource id out of range returns
\* InvalidFilter, with the origin filter's reason when that filter is invalid, whether
\* or not the resource id has an entry; it does not take the lock or change the
\* registry; and its validation can run whoever holds the lock.
C24_ValidationFirst ==
    /\ [](\A c \in Callers :
             /\ reg_pc[c] = "validate" => ENABLED endpoint_validate(c)
             /\ reg_pc[c] \in {"lock", "transport"} => ~InvalidArguments(reg_call[c]))
    /\ [][\A c \in Callers :
             (reg_pc[c] = "validate" /\ reg_pc'[c] # "validate" /\ InvalidArguments(reg_call[c]))
             => /\ reg_pc'[c] = "idle"
                /\ reg_result'[c].value.kind = "InvalidFilter"
                /\ reg_result'[c].value # MaxListenersExceeded
                /\ reg_result'[c].value # NoSuchListener
                /\ InvalidOrigin(reg_call[c])
                       => reg_result'[c].value
                              = InvalidFilter("origin filter's resource ID must be 0")
                /\ lock' = lock
                /\ c \notin lock'
                /\ request_listeners' = request_listeners
         ]_vars

\* every valid resource id has an entry and a call of unregister_endpoint holds the
\* lock inside the transport, while a call of register_endpoint has returned
\* InvalidFilter for its origin filter
C24_Witness ==
    \E c, d \in Callers :
        /\ c # d
        /\ DOMAIN request_listeners = {1, MethodMax}
        /\ lock = {d}
        /\ reg_pc[d] = "transport"
        /\ reg_call[d].op = "unregister"
        /\ reg_pc[c] = "idle"
        /\ reg_result[c] = Returned("register",
                                    InvalidFilter("origin filter's resource ID must be 0"))

\* C25: whenever no call holds the registry's lock, and so whenever no registry
\* operation is in progress, the registry and the transport agree: a resource id has an
\* entry exactly if the transport holds a listener for it, registered by a
\* register_listener that succeeded and not unregistered by a successful
\* unregister_listener since, and the entry is that listener. At all times every key
\* lies in [1, 0x7FFF] and maps to one dispatcher.
C25_RegistryAgreesWithTransport ==
    /\ (lock = {}) => /\ DOMAIN request_listeners = DOMAIN transport_listeners
                      /\ \A r \in DOMAIN request_listeners :
                            request_listeners[r] = transport_listeners[r]
    /\ (\A c \in Callers : reg_pc[c] = "idle") => lock = {}
    /\ \A r \in DOMAIN request_listeners :
          /\ r >= 1 /\ r <= MethodMax
          /\ request_listeners[r] \in {RequestListener(h) : h \in Handlers}

\* with both callers back, one from an unregister_endpoint that succeeded and one from
\* a register_endpoint that the transport refused, one endpoint is registered, with
\* the registry and with the transport
C25_Witness ==
    \E c, d \in Callers :
        /\ reg_pc[c] = "idle" /\ reg_pc[d] = "idle"
        /\ reg_result[c] = Returned("unregister", Ok)
        /\ reg_result[d] = Returned("register", RegistrationErrorFrom("UNAVAILABLE"))
        /\ DOMAIN request_listeners = {MethodMax}
        /\ DOMAIN transport_listeners = {MethodMax}
        /\ transport_listeners[MethodMax] = RequestListener("H2")

\* an unregister_endpoint is inside its transport call
Unregistering(c) == reg_pc[c] = "transport" /\ reg_call[c].op = "unregister"

\* C26: an unregister_endpoint for a registered resource id hands the transport the
\* dispatcher stored in the registry, whatever handler the call was given, together
\* with the origin filter of this call (the wildcard address when it has none); when
\* the transport succeeds the entry is removed, also when the handler of the call is
\* not the handler the endpoint was registered with.
C26_UnregisterIgnoresHandler ==
    /\ [](\A c \in Callers :
             Unregistering(c)
             => /\ contains_endpoint(reg_call[c].resource_id)
                /\ transport_calls[c] =
                       <<[fn |-> "unregister_listener",
                          source_filter |-> IF reg_call[c].origin_filter = None
                                            THEN UUriAny
                                            ELSE Unwrap(reg_call[c].origin_filter),
                          sink_filter |-> Some(get_resource_uri(reg_call[c].resource_id)),
                          listener |-> request_listeners[reg_call[c].resource_id]]>>)
    /\ [][\A c \in Callers :
             (/\ Unregistering(c)
              /\ reg_pc'[c] = "idle"
              /\ reg_result'[c].value = Ok
              /\ request_listeners[reg_call[c].resource_id]
                     # RequestListener(reg_call[c].request_handler))
             => reg_call[c].resource_id \notin DOMAIN request_listeners'
         ]_vars

\* an endpoint registered with handler H1 and without origin filter is being
\* unregistered by a call that names handler H2 and an origin filter: the transport is
\* handed the dispatcher of H1 and the origin filter of the call
C26_Witness ==
    \E c, d \in Callers :
        /\ c # d
        /\ Unregistering(c)
        /\ reg_call[c].request_handler = "H2"
        /\ reg_call[c].origin_filter # None
        /\ request_listeners[reg_call[c].resource_id] = RequestListener("H1")
        /\ transport_calls[c][1].listener = RequestListener("H1")
        /\ transport_calls[c][1].source_filter = Unwrap(reg_call[c].origin_filter)
        /\ reg_pc[d] = "idle"
        /\ reg_result[d] = Returned("register", Ok)
        /\ transport_calls[d][1].source_filter = UUriAny
        /\ transport_calls[d][1].sink_filter = transport_calls[c][1].sink_filter

\* the response of a request whose invocation ended in DeadlineExceeded: the response
\* attributes of the request with comm-status DEADLINE_EXCEEDED, and the serialized
\* status of the error as protobuf payload
DeadlineExceededResponse(t) ==
    UMessage(Some([response_for_request(t, Request(t)) EXCEPT
                       !.commstatus = Some("DEADLINE_EXCEEDED"),
                       !.payload_format = "PROTOBUF"]),
             Some(write_to_bytes(UStatus("DEADLINE_EXCEEDED", Some(DeadlineExceeded.msg)))))

\* C27: a handler that returns the DeadlineExceeded error before the ttl has elapsed
\* has a DEADLINE_EXCEEDED response sent before the deadline, and that response is the
\* very message a timeout of the same request produces: whether the handler or the
\* timer decided, the message sent for a DeadlineExceeded outcome is the same function
\* of the request.
C27_HandlerDeadlineExceeded ==
    \A t \in DOMAIN task_pc :
        (Decided(t) /\ Race(t).result = InvokeErr(DeadlineExceeded))
        => /\ Len(sent[t]) = 1
           /\ FirstSent(t).message = DeadlineExceededResponse(t)
           /\ ResponseAttributes(t).commstatus = Some("DEADLINE_EXCEEDED")
           /\ FirstSent(t).at = Race(t).at
           /\ (Race(t).by = "timer") => FirstSent(t).at >= Ttl(t)

\* a DEADLINE_EXCEEDED response has been sent although the ttl has not elapsed: the
\* handler itself returned DeadlineExceeded at time 0 for a request with ttl 2
C27_Witness ==
    \E t \in DOMAIN task_pc :
        /\ task_pc[t] = "done"
        /\ send_result[t] = Some("OK")
        /\ Decided(t)
        /\ Race(t).by = "handler"
        /\ Race(t).result = InvokeErr(DeadlineExceeded)
        /\ Len(sent[t]) = 1
        /\ ResponseAttributes(t).commstatus = Some("DEADLINE_EXCEEDED")
        /\ FirstSent(t).at = 0
        /\ Ttl(t) = 2
        /\ elapsed[t] < Ttl(t)

\* the endpoint's entry has been removed by an unregister_endpoint that returned Ok
EntryRemoved ==
    /\ ~contains_endpoint(ServerResourceId)
    /\ \E c \in ServerCallers : reg_result[c] = Returned("unregister", Ok)

\* C28: a request that the transport delivered while the endpoint's listener was
\* registered is processed to completion when the endpoint is unregistered meanwhile:
\* with the entry removed, a dispatch that awaits its handler has invoked the handler
\* once and can take the handler's result, a dispatch that has passed its response to
\* send can have send return, the step that decides the race passes exactly one
\* response for the request to send, and every such dispatch eventually completes with
\* its response sent.
C28_DeliveredRequestCompletes ==
    /\ [](\A t \in DOMAIN task_pc :
             (EntryRemoved /\ Valid(t))
             => /\ task_pc[t] = "awaiting"
                       => /\ Len(invocations[t]) = 1
                          /\ invocations[t][1].resource_id = ServerResourceId
                          /\ ENABLED handler_completes(t)
                /\ (task_pc[t] = "awaiting" /\ elapsed[t] >= Ttl(t))
                       => ENABLED timeout_elapses(t)
                /\ task_pc[t] = "sending" => ENABLED send_returns(t))
    /\ [][\A t \in DOMAIN task_pc :
             (/\ EntryRemoved
              /\ Valid(t)
              /\ task_pc[t] = "awaiting"
              /\ task_pc'[t] # "awaiting")
             => /\ task_pc'[t] = "sending"
                /\ Len(sent'[t]) = 1
                /\ sent'[t][1].message
                       = Response(t, Request(t), Unwrap(outcome'[t]).result)
         ]_vars
    /\ \A t \in Tasks :
          (EntryRemoved /\ Valid(t) /\ task_pc[t] = "awaiting")
              ~> (task_pc[t] = "done" /\ Len(sent[t]) = 1 /\ send_result[t] # None)

\* the endpoint has been unregistered and its entry removed while a request that was
\* delivered to its dispatcher still awaits the handler: no response has been sent yet
C28_Witness ==
    \E t \in DOMAIN task_pc :
        /\ EntryRemoved
        /\ ServerResourceId \notin DOMAIN transport_listeners
        /\ lock = {}
        /\ Valid(t)
        /\ task_pc[t] = "awaiting"
        /\ Len(invocations[t]) = 1
        /\ sent[t] = <<>>

\* C29: every return of register_endpoint and unregister_endpoint leaves the lock
\* free of the caller (success, MaxListenersExceeded, NoSuchListener and transport
\* failure alike), and the lock is held only by a call that is inside its transport
\* call; while a call is inside its transport call, no other call that waits for the
\* lock, whatever its resource id, can go on; and with a fair lock and a transport
\* whose calls return, every call that has been made eventually returns.
C29_LockReleased ==
    /\ [][\A c \in Callers :
             (reg_pc[c] # "idle" /\ reg_pc'[c] = "idle") => c \notin lock'
         ]_vars
    /\ [](\A c \in Callers : c \in lock => reg_pc[c] = "transport")
    /\ [](\A c, d \in Callers :
             (c # d /\ reg_pc[c] = "transport" /\ reg_pc[d] = "lock")
             => /\ ~ENABLED register_endpoint_locked(d)
                /\ ~ENABLED unregister_endpoint_locked(d))
    /\ \A c \in Callers :
          (reg_pc[c] # "idle") ~> (reg_pc[c] = "idle" /\ c \notin lock)

\* a call is inside the transport's unregister_listener for resource id 1 while a
\* register_endpoint for another resource id, with valid filters, waits for the lock
C29_Witness ==
    \E c, d \in Callers :
        /\ c # d
        /\ lock = {c}
        /\ reg_pc[c] = "transport"
        /\ reg_call[c].op = "unregister"
        /\ reg_call[c].resource_id = 1
        /\ reg_pc[d] = "lock"
        /\ reg_call[d].op = "register"
        /\ reg_call[d].resource_id = MethodMax
        /\ ValidateFilters(reg_call[d].origin_filter, reg_call[d].resource_id) = Ok
        /\ ~contains_endpoint(MethodMax)

\* the message handed to on_receive carries no attributes
NoAttributes(t) == task_msg[t] # None /\ Unwrap(task_msg[t]).attributes = None

\* C30: a message without attributes is dropped by on_receive before it is validated:
\* the dispatch is over at once, the handler has not been invoked, nothing has been
\* passed to the transport's send, no race has been started and no step of a dispatch
\* is left to take.
C30_NoAttributesDropped ==
    \A t \in DOMAIN task_pc :
        NoAttributes(t)
        => /\ Completed(t)
           /\ invocations[t] = <<>>
           /\ sent[t] = <<>>
           /\ outcome[t] = None
           /\ send_result[t] = None
           /\ SendCalls(t) = 0
           /\ Logged("on_receive", t)
           /\ ~ENABLED handler_completes(t)
           /\ ~ENABLED timeout_elapses(t)
           /\ ~ENABLED send_returns(t)

\* on_receive has been called with a message that has no attributes and has returned
C30_Witness ==
    \E t \in DOMAIN task_pc :
        /\ NoAttributes(t)
        /\ task_msg[t] = Some(UMessage(None, None))
        /\ transport_log = <<LogEntry("on_receive", t)>>
        /\ Logged("on_receive", t)
        /\ Completed(t)

====
